---- MODULE Spec2Model ----
(***************************************************************************)
(* Model of alist/component/client.py: the response validator              *)
(* (check_response), and the session/authentication life cycle of          *)
(* AlistClient (login, base_path, get_base_path, close).                   *)
(*                                                                         *)
(* Python values are written as records so that values of different        *)
(* Python types can be compared:                                           *)
(*   an envelope (dict)      [code |-> .., message |-> .., data |-> ..]    *)
(*   an awaitable            [awaitable |-> v]     (v is what it yields)   *)
(*   a callable              [callable |-> v]      (v is what it returns)  *)
(*   None                    [none |-> TRUE]                               *)
(***************************************************************************)
EXTENDS Integers, Sequences, FiniteSets, TLC

VARIABLES
    v_env,      \* the envelope the server produced
    v_func,     \* per path: the argument handed to check_response
    v_pc,       \* per path: position of the call / of its coroutine
    v_coro,     \* per path: the awaitable held by the check_code_async coroutine
    v_resp,     \* per path: what check_code is (to be) applied to, None before
    v_out       \* per path: outcome: still running, a return value or a raise

vvars == <<v_env, v_func, v_pc, v_coro, v_resp, v_out>>

VARIABLES
    alive,          \* the AlistClient object: "new" before __init__, "init" while
                    \* __init__ runs login, "ready", "failed" when __init__ raised
    username,       \* self.__dict__["username"]
    password,       \* self.__dict__["password"]
    otp_code,       \* self.__dict__["otp_code"]
    authorization,  \* self.headers["Authorization"], Absent without the key
    base_path,      \* self.__dict__["base_path"] (the cached_property), Absent
                    \* while nothing is cached
    pc,             \* per caller: position in the call it is running
    frame,          \* per caller: the locals of that call
    io,             \* per caller: the request in flight and its response
    out,            \* per caller: outcome of its current / last call
    session,        \* self.__dict__["session"]: the headers object the blocking
                    \* session holds, Absent while there is no session
    async_session,  \* self.__dict__["async_session"], likewise
    me_requests     \* number of GET /api/me requests sent so far

\* The session state of the client.
svars == <<alive, username, password, otp_code, authorization, base_path,
           pc, frame, io, out, session, async_session, me_requests>>

VARIABLES
    r_pc,       \* position of the read_bytes call: "idle", "coro", "probe_io",
                \* "probe_close", "data_io", "done" ("off": no reader)
    r_length,   \* total length of the resource behind the url
    r_args,     \* the arguments of the call: start, stop, async_
    r_req,      \* the request on the wire, None when there is none
    r_resp,     \* the last response, None before it
    r_pending,  \* outcome of the try block, pending during its finally clause
    r_probe,    \* the probe response: "none", "open", closed by "close" or "aclose"
    r_log,      \* the requests the call has sent, in order
    r_out       \* outcome of the call

rvars == <<r_pc, r_length, r_args, r_req, r_resp, r_pending, r_probe, r_log, r_out>>

cvars == <<alive, username, password, otp_code, authorization, base_path,
           pc, frame, io, out, session, async_session, me_requests,
           r_pc, r_length, r_args, r_req, r_resp, r_pending, r_probe, r_log, r_out>>

vars == <<v_env, v_func, v_pc, v_coro, v_resp, v_out,
          alive, username, password, otp_code, authorization, base_path,
          pc, frame, io, out, session, async_session, me_requests,
          r_pc, r_length, r_args, r_req, r_resp, r_pending, r_probe, r_log, r_out>>

(***************************************************************************)
(* Python values                                                           *)
(***************************************************************************)
None == [none |-> TRUE]

Awaitable(v) == [awaitable |-> v]

CallableReturning(v) == [callable |-> v]

isawaitable(v) == "awaitable" \in DOMAIN v

callable(v) == "callable" \in DOMAIN v

isdict(v) == "code" \in DOMAIN v

\* str.startswith / str.endswith
startswith(s, prefix) ==
    /\ Len(s) >= Len(prefix)
    /\ SubSeq(s, 1, Len(prefix)) = prefix

endswith(s, suffix) ==
    /\ Len(s) >= Len(suffix)
    /\ SubSeq(s, Len(s) - Len(suffix) + 1, Len(s)) = suffix

\* Outcome of a call: still running, returned a value, or raised
\* exc(errno, arg); errno is "" for exceptions raised without one.
Running == [kind |-> "running", exc |-> "", errno |-> "", value |-> None]

Returned(v) == [kind |-> "return", exc |-> "", errno |-> "", value |-> v]

Raised(exc, eno, arg) == [kind |-> "raise", exc |-> exc, errno |-> eno, value |-> arg]

(***************************************************************************)
(* Envelopes the server can produce                                        *)
(***************************************************************************)
Codes == {0, 199, 200, 204, 299, 300, 400, 403, 404, 500, 503}

MsgHeads == {"", "x ", "failed get ", "failed get storage: storage not found"}

MsgMids == {"", ": y ", "path is "}

MsgTails == {"", "object not found", "not a folder", "file exists", "success"}

Messages == {h \o m \o t : h \in MsgHeads, m \in MsgMids, t \in MsgTails}

Datas == {None, [token |-> "tok"]}

Envelopes == [code : Codes, message : Messages, data : Datas]

(***************************************************************************)
(* check_response                                                          *)
(***************************************************************************)
\* Variants of check_code, each with one plausible slip.
\* Lower bound of the success range exclusive.
check_code_open_lower(resp) ==
    IF ~isdict(resp) THEN Raised("TypeError", "", None)
    ELSE LET code == resp.code
             message == resp.message
         IN  IF 200 < code /\ code < 300 THEN Returned(resp)
             ELSE IF code = 403 THEN Raised("PermissionError", "EACCES", resp)
             ELSE IF code = 500 /\ ( \/ endswith(message, "object not found")
                                     \/ startswith(message, "failed get storage: storage not found") )
                  THEN Raised("FileNotFoundError", "ENOENT", resp)
             ELSE IF code = 500 /\ endswith(resp.message, "not a folder")
                  THEN Raised("NotADirectoryError", "ENOTDIR", resp)
             ELSE IF code = 500 /\ endswith(message, "file exists")
                  THEN Raised("FileExistsError", "EEXIST", resp)
             ELSE IF code = 500 /\ startswith(message, "failed get ")
                  THEN Raised("PermissionError", "EPERM", resp)
             ELSE Raised("OSError", "EIO", resp)

\* Message rules applied to every failing code, before the 403 test.
check_code_message_first(resp) ==
    IF ~isdict(resp) THEN Raised("TypeError", "", None)
    ELSE LET code == resp.code
             message == resp.message
         IN  IF 200 <= code /\ code < 300 THEN Returned(resp)
             ELSE IF ( \/ endswith(message, "object not found")
                       \/ startswith(message, "failed get storage: storage not found") )
                  THEN Raised("FileNotFoundError", "ENOENT", resp)
             ELSE IF endswith(resp.message, "not a folder")
                  THEN Raised("NotADirectoryError", "ENOTDIR", resp)
             ELSE IF endswith(message, "file exists")
                  THEN Raised("FileExistsError", "EEXIST", resp)
             ELSE IF code = 403 THEN Raised("PermissionError", "EACCES", resp)
             ELSE IF code = 500 /\ startswith(message, "failed get ")
                  THEN Raised("PermissionError", "EPERM", resp)
             ELSE Raised("OSError", "EIO", resp)

\* The "failed get " prefix rule tested before the other message rules.
check_code_prefix_first(resp) ==
    IF ~isdict(resp) THEN Raised("TypeError", "", None)
    ELSE LET code == resp.code
             message == resp.message
         IN  IF 200 <= code /\ code < 300 THEN Returned(resp)
             ELSE IF code = 403 THEN Raised("PermissionError", "EACCES", resp)
             ELSE IF code = 500 /\ startswith(message, "failed get ")
                  THEN Raised("PermissionError", "EPERM", resp)
             ELSE IF code = 500 /\ ( \/ endswith(message, "object not found")
                                     \/ startswith(message, "failed get storage: storage not found") )
                  THEN Raised("FileNotFoundError", "ENOENT", resp)
             ELSE IF code = 500 /\ endswith(resp.message, "not a folder")
                  THEN Raised("NotADirectoryError", "ENOTDIR", resp)
             ELSE IF code = 500 /\ endswith(message, "file exists")
                  THEN Raised("FileExistsError", "EEXIST", resp)
             ELSE Raised("OSError", "EIO", resp)

\* The storage-not-found prefix forgotten in the NotFound rule.
check_code_suffix_only(resp) ==
    IF ~isdict(resp) THEN Raised("TypeError", "", None)
    ELSE LET code == resp.code
             message == resp.message
         IN  IF 200 <= code /\ code < 300 THEN Returned(resp)
             ELSE IF code = 403 THEN Raised("PermissionError", "EACCES", resp)
             ELSE IF code = 500 /\ endswith(message, "object not found")
                  THEN Raised("FileNotFoundError", "ENOENT", resp)
             ELSE IF code = 500 /\ endswith(resp.message, "not a folder")
                  THEN Raised("NotADirectoryError", "ENOTDIR", resp)
             ELSE IF code = 500 /\ endswith(message, "file exists")
                  THEN Raised("FileExistsError", "EEXIST", resp)
             ELSE IF code = 500 /\ startswith(message, "failed get ")
                  THEN Raised("PermissionError", "EPERM", resp)
             ELSE Raised("OSError", "EIO", resp)

\* The NotADirectory and AlreadyExists rules with their exceptions swapped.
check_code_swapped(resp) ==
    IF ~isdict(resp) THEN Raised("TypeError", "", None)
    ELSE LET code == resp.code
             message == resp.message
         IN  IF 200 <= code /\ code < 300 THEN Returned(resp)
             ELSE IF code = 403 THEN Raised("PermissionError", "EACCES", resp)
             ELSE IF code = 500 /\ ( \/ endswith(message, "object not found")
                                     \/ startswith(message, "failed get storage: storage not found") )
                  THEN Raised("FileNotFoundError", "ENOENT", resp)
             ELSE IF code = 500 /\ endswith(resp.message, "not a folder")
                  THEN Raised("FileExistsError", "EEXIST", resp)
             ELSE IF code = 500 /\ endswith(message, "file exists")
                  THEN Raised("NotADirectoryError", "ENOTDIR", resp)
             ELSE IF code = 500 /\ startswith(message, "failed get ")
                  THEN Raised("PermissionError", "EPERM", resp)
             ELSE Raised("OSError", "EIO", resp)

\* The operation-level PermissionError raised with the errno of the 403 one.
check_code_same_errno(resp) ==
    IF ~isdict(resp) THEN Raised("TypeError", "", None)
    ELSE LET code == resp.code
             message == resp.message
         IN  IF 200 <= code /\ code < 300 THEN Returned(resp)
             ELSE IF code = 403 THEN Raised("PermissionError", "EACCES", resp)
             ELSE IF code = 500 /\ ( \/ endswith(message, "object not found")
                                     \/ startswith(message, "failed get storage: storage not found") )
                  THEN Raised("FileNotFoundError", "ENOENT", resp)
             ELSE IF code = 500 /\ endswith(resp.message, "not a folder")
                  THEN Raised("NotADirectoryError", "ENOTDIR", resp)
             ELSE IF code = 500 /\ endswith(message, "file exists")
                  THEN Raised("FileExistsError", "EEXIST", resp)
             ELSE IF code = 500 /\ startswith(message, "failed get ")
                  THEN Raised("PermissionError", "EACCES", resp)
             ELSE Raised("OSError", "EIO", resp)

\* The final raise placed inside the code-500 branch: other codes fall
\* off the end of the function and the envelope is returned as None.
check_code_no_catch_all(resp) ==
    IF ~isdict(resp) THEN Raised("TypeError", "", None)
    ELSE LET code == resp.code
             message == resp.message
         IN  IF 200 <= code /\ code < 300 THEN Returned(resp)
             ELSE IF code = 403 THEN Raised("PermissionError", "EACCES", resp)
             ELSE IF code = 500 /\ ( \/ endswith(message, "object not found")
                                     \/ startswith(message, "failed get storage: storage not found") )
                  THEN Raised("FileNotFoundError", "ENOENT", resp)
             ELSE IF code = 500 /\ endswith(resp.message, "not a folder")
                  THEN Raised("NotADirectoryError", "ENOTDIR", resp)
             ELSE IF code = 500 /\ endswith(message, "file exists")
                  THEN Raised("FileExistsError", "EEXIST", resp)
             ELSE IF code = 500 /\ startswith(message, "failed get ")
                  THEN Raised("PermissionError", "EPERM", resp)
             ELSE IF code = 500 THEN Raised("OSError", "EIO", resp)
             ELSE Returned(None)

\* check_code(resp): resp["code"] on something that is not a dict
\* (a coroutine, None) raises TypeError.
check_code(resp) ==
    IF ~isdict(resp) THEN Raised("TypeError", "", None)
    ELSE LET code == resp.code
             message == resp.message
         IN  IF 200 <= code /\ code < 300 THEN Returned(resp)
             ELSE IF code = 403 THEN Raised("PermissionError", "EACCES", resp)
             ELSE IF code = 500 /\ ( \/ endswith(message, "object not found")
                                     \/ startswith(message, "failed get storage: storage not found") )
                  THEN Raised("FileNotFoundError", "ENOENT", resp)
             ELSE IF code = 500 /\ endswith(resp.message, "not a folder")
                  THEN Raised("NotADirectoryError", "ENOTDIR", resp)
             ELSE IF code = 500 /\ endswith(message, "file exists")
                  THEN Raised("FileExistsError", "EEXIST", resp)
             ELSE IF code = 500 /\ startswith(message, "failed get ")
                  THEN Raised("PermissionError", "EPERM", resp)
             ELSE Raised("OSError", "EIO", resp)

\* The ways an envelope reaches check_response: as a dict, as an awaitable,
\* and through a callable that returns either.
Paths == {"dict", "awaitable", "callable_sync", "callable_async"}

FuncFor(p, env) ==
    CASE p = "dict" -> env
      [] p = "awaitable" -> Awaitable(env)
      [] p = "callable_sync" -> CallableReturning(env)
      [] p = "callable_async" -> CallableReturning(Awaitable(env))

\* check_response(func) with func a dict: check_code(func) at once.
check_response_dict(p) ==
    /\ v_pc[p] = "call"
    /\ ~callable(v_func[p]) /\ ~isawaitable(v_func[p])
    /\ v_resp' = [v_resp EXCEPT ![p] = v_func[p]]
    /\ v_out' = [v_out EXCEPT ![p] = check_code(v_func[p])]
    /\ v_pc' = [v_pc EXCEPT ![p] = "done"]
    /\ UNCHANGED <<v_env, v_func, v_coro, cvars>>

\* check_response(func) with func an awaitable: returns the coroutine
\* check_code_async(func); nothing of it has run yet.
check_response_awaitable(p) ==
    /\ v_pc[p] = "call"
    /\ ~callable(v_func[p]) /\ isawaitable(v_func[p])
    /\ v_coro' = [v_coro EXCEPT ![p] = v_func[p]]
    /\ v_pc' = [v_pc EXCEPT ![p] = "coroutine"]
    /\ UNCHANGED <<v_env, v_func, v_resp, v_out, cvars>>

\* check_response(func) with func callable: returns wrapper.
check_response_callable(p) ==
    /\ v_pc[p] = "call"
    /\ callable(v_func[p])
    /\ v_pc' = [v_pc EXCEPT ![p] = "wrapper"]
    /\ UNCHANGED <<v_env, v_func, v_coro, v_resp, v_out, cvars>>

\* wrapper without the isawaitable test: check_code applied to whatever
\* func returned.
wrapper_no_isawaitable(p) ==
    /\ v_pc[p] = "wrapper"
    /\ LET resp == v_func[p].callable
       IN  /\ v_resp' = [v_resp EXCEPT ![p] = resp]
           /\ v_out' = [v_out EXCEPT ![p] = check_code(resp)]
           /\ v_pc' = [v_pc EXCEPT ![p] = "done"]
           /\ UNCHANGED v_coro
    /\ UNCHANGED <<v_env, v_func, cvars>>

\* wrapper(*args, **kwds): resp = func(...); an awaitable resp goes to
\* check_code_async, anything else to check_code.
wrapper(p) ==
    /\ v_pc[p] = "wrapper"
    /\ LET resp == v_func[p].callable
       IN  IF isawaitable(resp)
           THEN /\ v_coro' = [v_coro EXCEPT ![p] = resp]
                /\ v_pc' = [v_pc EXCEPT ![p] = "coroutine"]
                /\ UNCHANGED <<v_resp, v_out>>
           ELSE /\ v_resp' = [v_resp EXCEPT ![p] = resp]
                /\ v_out' = [v_out EXCEPT ![p] = check_code(resp)]
                /\ v_pc' = [v_pc EXCEPT ![p] = "done"]
                /\ UNCHANGED v_coro
    /\ UNCHANGED <<v_env, v_func, cvars>>

\* The caller awaits the coroutine: check_code_async runs up to `await resp`
\* and is resumed with what the awaitable yields.
check_code_async_await(p) ==
    /\ v_pc[p] = "coroutine"
    /\ v_resp' = [v_resp EXCEPT ![p] = v_coro[p].awaitable]
    /\ v_pc' = [v_pc EXCEPT ![p] = "resumed"]
    /\ UNCHANGED <<v_env, v_func, v_coro, v_out, cvars>>

\* check_code_async resumed: return check_code(<what was awaited>).
check_code_async_resume(p) ==
    /\ v_pc[p] = "resumed"
    /\ v_out' = [v_out EXCEPT ![p] = check_code(v_resp[p])]
    /\ v_pc' = [v_pc EXCEPT ![p] = "done"]
    /\ UNCHANGED <<v_env, v_func, v_coro, v_resp, cvars>>

(***************************************************************************)
(* AlistClient: session and authentication                                 *)
(***************************************************************************)
\* A key that is not in a dict (self.__dict__, self.headers).
Absent == "<absent>"

\* Callers that use one client concurrently (threads, or tasks of one loop).
NumCallers == 2

Callers == 1..NumCallers

\* GET /api/me requests the model lets the client send.
MaxLookups == 2

Usernames == {"alice", "bob"}

Passwords == {"pw"}

OtpCodes == {"123456"}

\* Values assigned to attributes: str and int objects.
Str(text) == [str |-> text]

Integer(n) == [int |-> n]

Vals == {Str(""), Integer(7)}

Attrs == {"username", "password", "otp_code", "headers"}

\* str(n) for an int: its decimal digits.
RECURSIVE decimal(_)
decimal(n) ==
    IF n < 0 THEN "-" \o decimal(-n)
    ELSE IF n < 10 THEN SubSeq("0123456789", n + 1, n + 1)
    ELSE decimal(n \div 10) \o SubSeq("0123456789", (n % 10) + 1, (n % 10) + 1)

\* str(val)
str(val) == IF "str" \in DOMAIN val THEN val.str ELSE decimal(val.int)

\* sha256(f"{password}-https://github.com/alist-org/alist").hexdigest()
sha256_hexdigest(text) == "sha256(" \o text \o ")"

hashed(pw) == sha256_hexdigest(pw \o "-https://github.com/alist-org/alist")

\* complete_url(origin) of the default origin.
Origin == "http://localhost:5244"

\* The _headers of a session: the client's own headers object, or (in no
\* run of this code) a copy taken when the session was made.
SharedHeaders == "ns[headers]"

CopiedHeaders(auth) == "copy:" \o auth

\* The Authorization a session sends: that of the headers object it holds.
HeadersOf(s, auth) ==
    IF s = SharedHeaders THEN auth ELSE SubSeq(s, 6, Len(s))

\* A session made with its own copy of the headers.
new_session_copies(auth) == CopiedHeaders(auth)

\* session / async_session, lines 172-176 and 182-186: a new httpx client
\* whose _headers is ns["headers"] itself.
new_session(auth) == SharedHeaders

\* The cached_property: the session in __dict__, a new one when there is none.
cached_session(s, auth) == IF s = Absent THEN new_session(auth) ELSE s

NoIO == [req |-> None, resp |-> None]

NoFrame == [op |-> "none", async |-> FALSE, ctor |-> FALSE, setattr |-> FALSE,
            custom |-> FALSE, hash_password |-> FALSE,
            username |-> "", password |-> "", otp_code |-> "",
            path |-> "", ensure_ascii |-> FALSE, session |-> "",
            before |-> [username |-> "", password |-> "", otp_code |-> ""]]

\* The stored credentials as a login call finds them (lines 261-273 replace
\* them before gen_step runs): kept with the call for the properties that
\* compare the state after a login with the state before it. The login()
\* of __init__ and of __setattr__ finds what these have just stored.
Before(c) ==
    IF pc[c] = "login_coro" THEN frame[c].before
    ELSE [username |-> username, password |-> password, otp_code |-> otp_code]

\* The transport raised instead of delivering a response.
TransportError == [transport_error |-> TRUE]

\* The server: the token it issues to a user, and the base path of the user
\* a token (or no token: the guest) identifies.
TokenFor(user) == "jwt-" \o user

BasePathOf(auth) ==
    CASE auth = "jwt-alice" -> "/alice"
      [] auth = "jwt-bob" -> "/bob"
      [] OTHER -> "/"

LoginCodes == {200, 299, 300, 403}

LoginResponses(req) ==
    { [code |-> c, message |-> "", data |-> d] :
        c \in LoginCodes, d \in {None, [token |-> TokenFor(req.json.username)]} }
    \cup {TransportError}

MeResponses(req) ==
    { [code |-> 200, message |-> "success",
       data |-> [base_path |-> BasePathOf(req.authorization)]],
      [code |-> 401, message |-> "", data |-> None],
      TransportError }

\* request, lines 226-248: the request goes out through the session of the
\* mode (made on first use), or through the callable the caller supplied,
\* which is handed self.headers. url is the path below self.origin.
request(c, method, url, json, async, custom) ==
    /\ session' = IF ~custom /\ ~async
                  THEN cached_session(session, authorization) ELSE session
    /\ async_session' = IF ~custom /\ async
                        THEN cached_session(async_session, authorization)
                        ELSE async_session
    /\ io' = [io EXCEPT ![c] =
            [req |-> [method |-> method, url |-> url, json |-> json,
                      via |-> IF custom THEN "request"
                              ELSE IF async THEN "async_session" ELSE "session",
                      authorization |->
                          IF custom THEN authorization
                          ELSE IF async THEN HeadersOf(async_session', authorization)
                          ELSE HeadersOf(session', authorization)],
             resp |-> None]]

\* What `raise TypeError(f"can't set attribute: {attr!r}")` raises.
CantSetAttribute == Raised("TypeError", "", Str("can't set attribute"))

\* login_gen_step without line 296: a logout leaves the Authorization header.
login_gen_step_keeps_authorization(c, u, p, o, hash_password, async, ctor, setattr) ==
    IF u # ""
    THEN /\ request(c, "POST",
                    IF hash_password THEN "/api/auth/login/hash" ELSE "/api/auth/login",
                    [username |-> u,
                     password |-> IF hash_password THEN hashed(p) ELSE p,
                     otp_code |-> o],
                    async, FALSE)
         /\ pc' = [pc EXCEPT ![c] = "login_io"]
         /\ frame' = [frame EXCEPT ![c] =
                 [NoFrame EXCEPT !.op = "login", !.async = async, !.ctor = ctor,
                                 !.setattr = setattr,
                                 !.before = IF ctor \/ setattr
                                            THEN [username |-> u, password |-> p,
                                                  otp_code |-> o]
                                            ELSE Before(c)]]
         /\ out' = [out EXCEPT ![c] = Running]
         /\ UNCHANGED <<authorization, base_path>>
    ELSE /\ UNCHANGED authorization
         /\ base_path' = Absent
         /\ pc' = [pc EXCEPT ![c] = "idle"]
         /\ frame' = [frame EXCEPT ![c] = NoFrame]
         /\ out' = [out EXCEPT ![c] = IF setattr THEN CantSetAttribute ELSE Returned(None)]
         /\ UNCHANGED <<io, session, async_session>>

\* login_gen_step without line 297 on the logout path.
login_gen_step_logout_keeps_base_path(c, u, p, o, hash_password, async, ctor, setattr) ==
    IF u # ""
    THEN /\ request(c, "POST",
                    IF hash_password THEN "/api/auth/login/hash" ELSE "/api/auth/login",
                    [username |-> u,
                     password |-> IF hash_password THEN hashed(p) ELSE p,
                     otp_code |-> o],
                    async, FALSE)
         /\ pc' = [pc EXCEPT ![c] = "login_io"]
         /\ frame' = [frame EXCEPT ![c] =
                 [NoFrame EXCEPT !.op = "login", !.async = async, !.ctor = ctor,
                                 !.setattr = setattr,
                                 !.before = IF ctor \/ setattr
                                            THEN [username |-> u, password |-> p,
                                                  otp_code |-> o]
                                            ELSE Before(c)]]
         /\ out' = [out EXCEPT ![c] = Running]
         /\ UNCHANGED <<authorization, base_path>>
    ELSE /\ authorization' = Absent
         /\ UNCHANGED base_path
         /\ pc' = [pc EXCEPT ![c] = "idle"]
         /\ frame' = [frame EXCEPT ![c] = NoFrame]
         /\ out' = [out EXCEPT ![c] = IF setattr THEN CantSetAttribute ELSE Returned(None)]
         /\ UNCHANGED <<io, session, async_session>>

\* login, lines 274-291: gen_step up to its first yield, run with the
\* locals u, p, o of the call; without a username it runs to its end.
\* ctor: called from __init__ (line 141); setattr: from __setattr__ (line 161),
\* where line 162 follows the return of login.
login_gen_step(c, u, p, o, hash_password, async, ctor, setattr) ==
    IF u # ""
    THEN /\ request(c, "POST",
                    IF hash_password THEN "/api/auth/login/hash" ELSE "/api/auth/login",
                    [username |-> u,
                     password |-> IF hash_password THEN hashed(p) ELSE p,
                     otp_code |-> o],
                    async, FALSE)
         /\ pc' = [pc EXCEPT ![c] = "login_io"]
         /\ frame' = [frame EXCEPT ![c] =
                 [NoFrame EXCEPT !.op = "login", !.async = async, !.ctor = ctor,
                                 !.setattr = setattr,
                                 !.before = IF ctor \/ setattr
                                            THEN [username |-> u, password |-> p,
                                                  otp_code |-> o]
                                            ELSE Before(c)]]
         /\ out' = [out EXCEPT ![c] = Running]
         /\ UNCHANGED <<authorization, base_path>>
    ELSE /\ authorization' = Absent
         /\ base_path' = Absent
         /\ pc' = [pc EXCEPT ![c] = "idle"]
         /\ frame' = [frame EXCEPT ![c] = NoFrame]
         /\ out' = [out EXCEPT ![c] = IF setattr THEN CantSetAttribute ELSE Returned(None)]
         /\ UNCHANGED <<io, session, async_session>>

\* AlistClient(...) without lines 140-141.
AlistClient_init_without_login(u, p, o) ==
    /\ alive = "new"
    /\ username' = u
    /\ password' = p
    /\ otp_code' = o
    /\ alive' = "ready"
    /\ UNCHANGED <<authorization, base_path, pc, frame, io, out, session, async_session>>
    /\ UNCHANGED <<me_requests, vvars, rvars>>

\* AlistClient(origin, username, password, otp_code), by the first caller:
\* lines 128-139 set the fields, lines 140-141 call login() with a username.
AlistClient_init(u, p, o) ==
    /\ alive = "new"
    /\ username' = u
    /\ password' = p
    /\ otp_code' = o
    /\ IF u # ""
       THEN /\ login_gen_step(1, u, p, o, TRUE, FALSE, TRUE, FALSE)
            /\ alive' = "init"
       ELSE /\ alive' = "ready"
            /\ UNCHANGED <<authorization, base_path, pc, frame, io, out,
                           session, async_session>>
    /\ UNCHANGED <<me_requests, vvars, rvars>>

\* client.login(username, password, otp_code, hash_password, async_=...):
\* lines 261-273 store the arguments that are given and read the others;
\* in blocking mode gen_step runs at once, otherwise a coroutine is returned.
login(c, u, p, o, hash_password, async) ==
    /\ alive = "ready"
    /\ pc[c] = "idle"
    /\ username' = IF u # "" THEN u ELSE username
    /\ password' = IF p # "" THEN p ELSE password
    /\ otp_code' = IF o # "" THEN o ELSE otp_code
    /\ IF async
       THEN /\ pc' = [pc EXCEPT ![c] = "login_coro"]
            /\ frame' = [frame EXCEPT ![c] =
                    [NoFrame EXCEPT !.op = "login", !.async = TRUE,
                                    !.hash_password = hash_password,
                                    !.username = username', !.password = password',
                                    !.otp_code = otp_code', !.before = Before(c)]]
            /\ out' = [out EXCEPT ![c] = Running]
            /\ UNCHANGED <<authorization, base_path, io, session, async_session>>
       ELSE login_gen_step(c, username', password', otp_code', hash_password,
                           FALSE, FALSE, FALSE)
    /\ UNCHANGED <<alive, me_requests, vvars, rvars>>

\* The coroutine returned by login(..., async_=True) is awaited.
login_await(c) ==
    /\ pc[c] = "login_coro"
    /\ login_gen_step(c, frame[c].username, frame[c].password, frame[c].otp_code,
                      frame[c].hash_password, TRUE, FALSE, FALSE)
    /\ UNCHANGED <<alive, username, password, otp_code, me_requests, vvars, rvars>>

\* __setattr__, lines 157-162: a credential is stored as str(val) and, unless
\* it is the username, login() is called; line 162 is reached in every case
\* in which nothing was raised before it.
setattr(c, attr, val) ==
    /\ alive = "ready"
    /\ pc[c] = "idle"
    /\ username' = IF attr = "username" THEN str(val) ELSE username
    /\ password' = IF attr = "password" THEN str(val) ELSE password
    /\ otp_code' = IF attr = "otp_code" THEN str(val) ELSE otp_code
    /\ IF attr \in {"password", "otp_code"}
       THEN login_gen_step(c, username', password', otp_code', TRUE, FALSE, FALSE, TRUE)
       ELSE /\ out' = [out EXCEPT ![c] = CantSetAttribute]
            /\ UNCHANGED <<authorization, base_path, pc, frame, io,
                           session, async_session>>
    /\ UNCHANGED <<alive, me_requests, vvars, rvars>>

\* The server (or the transport) answers the request caller c has in flight.
server_respond(c) ==
    /\ io[c].req # None
    /\ io[c].resp = None
    /\ \E resp \in IF pc[c] = "login_io" THEN LoginResponses(io[c].req)
                                         ELSE MeResponses(io[c].req) :
          io' = [io EXCEPT ![c].resp = resp]
    /\ UNCHANGED <<alive, username, password, otp_code, authorization, base_path,
                   pc, frame, out, session, async_session, me_requests, vvars, rvars>>

\* login_resume without line 297: the cached base_path survives the login.
login_resume_keeps_base_path(c) ==
    /\ pc[c] = "login_io"
    /\ io[c].resp # None
    /\ LET resp == io[c].resp
       IN  IF resp = TransportError
           THEN /\ out' = [out EXCEPT ![c] = Raised("TransportError", "", None)]
                /\ UNCHANGED <<authorization, base_path>>
           ELSE IF ~(200 <= resp.code /\ resp.code < 300)
           THEN /\ out' = [out EXCEPT ![c] = Raised("OSError", "EINVAL", resp)]
                /\ UNCHANGED <<authorization, base_path>>
           ELSE IF resp.data = None
           THEN /\ out' = [out EXCEPT ![c] = Raised("TypeError", "", None)]
                /\ UNCHANGED <<authorization, base_path>>
           ELSE /\ authorization' = resp.data.token
                /\ UNCHANGED base_path
                /\ out' = [out EXCEPT ![c] = IF frame[c].setattr THEN CantSetAttribute
                                             ELSE Returned(None)]
    /\ pc' = [pc EXCEPT ![c] = "idle"]
    /\ frame' = [frame EXCEPT ![c] = NoFrame]
    /\ io' = [io EXCEPT ![c] = NoIO]
    /\ alive' = IF frame[c].ctor
                THEN (IF out'[c].kind = "return" THEN "ready" ELSE "failed")
                ELSE alive
    /\ UNCHANGED <<username, password, otp_code, session, async_session,
                   me_requests, vvars, rvars>>

\* login_resume with lines 292-294 in the wrong order: the token is stored
\* before the code is tested.
login_resume_stores_first(c) ==
    /\ pc[c] = "login_io"
    /\ io[c].resp # None
    /\ LET resp == io[c].resp
       IN  IF resp = TransportError
           THEN /\ out' = [out EXCEPT ![c] = Raised("TransportError", "", None)]
                /\ UNCHANGED <<authorization, base_path>>
           ELSE IF resp.data = None
           THEN /\ out' = [out EXCEPT ![c] = Raised("TypeError", "", None)]
                /\ UNCHANGED <<authorization, base_path>>
           ELSE IF ~(200 <= resp.code /\ resp.code < 300)
           THEN /\ authorization' = resp.data.token
                /\ out' = [out EXCEPT ![c] = Raised("OSError", "EINVAL", resp)]
                /\ UNCHANGED base_path
           ELSE /\ authorization' = resp.data.token
                /\ base_path' = Absent
                /\ out' = [out EXCEPT ![c] = IF frame[c].setattr THEN CantSetAttribute
                                             ELSE Returned(None)]
    /\ pc' = [pc EXCEPT ![c] = "idle"]
    /\ frame' = [frame EXCEPT ![c] = NoFrame]
    /\ io' = [io EXCEPT ![c] = NoIO]
    /\ alive' = IF frame[c].ctor
                THEN (IF out'[c].kind = "return" THEN "ready" ELSE "failed")
                ELSE alive
    /\ UNCHANGED <<username, password, otp_code, session, async_session,
                   me_requests, vvars, rvars>>

\* login, lines 292-297: gen_step resumed with the response; after a login
\* called by __setattr__ has returned, line 162 raises.
login_resume(c) ==
    /\ pc[c] = "login_io"
    /\ io[c].resp # None
    /\ LET resp == io[c].resp
       IN  IF resp = TransportError
           THEN /\ out' = [out EXCEPT ![c] = Raised("TransportError", "", None)]
                /\ UNCHANGED <<authorization, base_path>>
           ELSE IF ~(200 <= resp.code /\ resp.code < 300)
           THEN /\ out' = [out EXCEPT ![c] = Raised("OSError", "EINVAL", resp)]
                /\ UNCHANGED <<authorization, base_path>>
           ELSE IF resp.data = None
           THEN /\ out' = [out EXCEPT ![c] = Raised("TypeError", "", None)]
                /\ UNCHANGED <<authorization, base_path>>
           ELSE /\ authorization' = resp.data.token
                /\ base_path' = Absent
                /\ out' = [out EXCEPT ![c] = IF frame[c].setattr THEN CantSetAttribute
                                             ELSE Returned(None)]
    /\ pc' = [pc EXCEPT ![c] = "idle"]
    /\ frame' = [frame EXCEPT ![c] = NoFrame]
    /\ io' = [io EXCEPT ![c] = NoIO]
    /\ alive' = IF frame[c].ctor
                THEN (IF out'[c].kind = "return" THEN "ready" ELSE "failed")
                ELSE alive
    /\ UNCHANGED <<username, password, otp_code, session, async_session,
                   me_requests, vvars, rvars>>

(***************************************************************************)
(* get_url: urllib.parse.quote and str.translate                           *)
(***************************************************************************)
\* The printable ASCII characters in code order: chr(32) .. chr(95) and
\* chr(97) .. chr(126); the grave accent, chr(96), does not occur in a path here.
AsciiLow == " !\"#$%&'()*+,-./0123456789:;<=>?@ABCDEFGHIJKLMNOPQRSTUVWXYZ[\\]^_"

AsciiHigh == "abcdefghijklmnopqrstuvwxyz{|}~"

CharAt(s, i) == SubSeq(s, i, i)

InString(ch, s) == \E i \in 1..Len(s) : CharAt(s, i) = ch

ord(ch) ==
    IF InString(ch, AsciiLow)
    THEN 31 + (CHOOSE i \in 1..Len(AsciiLow) : CharAt(AsciiLow, i) = ch)
    ELSE 96 + (CHOOSE i \in 1..Len(AsciiHigh) : CharAt(AsciiHigh, i) = ch)

\* "%XX" of one ASCII character.
percent(ch) ==
    "%" \o CharAt("0123456789ABCDEF", (ord(ch) \div 16) + 1)
        \o CharAt("0123456789ABCDEF", (ord(ch) % 16) + 1)

\* Characters quote never escapes.
AlwaysSafe == "ABCDEFGHIJKLMNOPQRSTUVWXYZabcdefghijklmnopqrstuvwxyz0123456789_.-~"

\* urllib.parse.quote(s, safe=safe)
RECURSIVE quote(_, _)
quote(s, safe) ==
    IF s = "" THEN ""
    ELSE LET ch == CharAt(s, 1)
         IN  (IF InString(ch, AlwaysSafe) \/ InString(ch, safe) THEN ch ELSE percent(ch))
             \o quote(SubSeq(s, 2, Len(s)), safe)

\* s.translate({0x23: "%23", 0x3F: "%3F"})
RECURSIVE translate(_)
translate(s) ==
    IF s = "" THEN ""
    ELSE LET ch == CharAt(s, 1)
         IN  (IF ch = "#" THEN "%23" ELSE IF ch = "?" THEN "%3F" ELSE ch)
             \o translate(SubSeq(s, 2, Len(s)))

\* Resource paths handed to get_url.
UrlPaths == {"/f", "/a b#c?d", "/a%41"}

\* get_url, lines 2568-2573, given the value of self.base_path.
get_url_of(bp, path, ensure_ascii) ==
    LET full == IF bp # "/" THEN bp \o path ELSE path
    IN  IF ensure_ascii
        THEN Origin \o "/d" \o quote(full, "@[]:/!$&'()*+,;=")
        ELSE Origin \o "/d" \o translate(full)

\* The server's reading of a URL path: percent-decoding. A "%" followed by
\* two hexadecimal digits stands for the character of that code; anything
\* else stands for itself.
HexDigits == "0123456789ABCDEFabcdef"

hexval(ch) ==
    LET i == CHOOSE k \in 1..Len(HexDigits) : CharAt(HexDigits, k) = ch
    IN  IF i > 16 THEN i - 7 ELSE i - 1

chr(n) ==
    IF n < 96 THEN CharAt(AsciiLow, n - 31) ELSE CharAt(AsciiHigh, n - 96)

RECURSIVE unquote(_)
unquote(s) ==
    IF s = "" THEN ""
    ELSE IF /\ CharAt(s, 1) = "%"
            /\ Len(s) >= 3
            /\ InString(CharAt(s, 2), HexDigits)
            /\ InString(CharAt(s, 3), HexDigits)
            /\ 16 * hexval(CharAt(s, 2)) + hexval(CharAt(s, 3)) \in (32..95) \cup (97..126)
    THEN chr(16 * hexval(CharAt(s, 2)) + hexval(CharAt(s, 3)))
         \o unquote(SubSeq(s, 4, Len(s)))
    ELSE CharAt(s, 1) \o unquote(SubSeq(s, 2, Len(s)))

\* The values self.base_path takes: those the server hands out.
BasePaths == {BasePathOf(TokenFor(u)) : u \in Usernames} \cup {BasePathOf(Absent)}

\* get_url_of over the paths of this model, computed once.
get_url_value ==
    [bp \in BasePaths, path \in UrlPaths, ensure_ascii \in BOOLEAN |->
        get_url_of(bp, path, ensure_ascii)]

(***************************************************************************)
(* base_path, get_base_path, get_url, auth_me, close                       *)
(***************************************************************************)
\* get_base_path, line 320: gen_step up to its yield: auth_me, GET /api/me.
\* fr is the frame of the call that asked for it.
get_base_path_gen_step(c, fr) ==
    /\ me_requests < MaxLookups
    /\ request(c, "GET", "/api/me", None, fr.async, FALSE)
    /\ me_requests' = me_requests + 1
    /\ pc' = [pc EXCEPT ![c] = "me_io"]
    /\ frame' = [frame EXCEPT ![c] = fr]
    /\ out' = [out EXCEPT ![c] = Running]

\* base_path as a plain property: every access looks the value up.
base_path_get_uncached(c) ==
    /\ alive = "ready"
    /\ pc[c] = "idle"
    /\ get_base_path_gen_step(c, [NoFrame EXCEPT !.op = "base_path"])
    /\ UNCHANGED <<alive, username, password, otp_code, authorization, base_path, vvars, rvars>>

\* client.base_path: the cached value if there is one, else get_base_path().
base_path_get(c) ==
    /\ alive = "ready"
    /\ pc[c] = "idle"
    /\ IF base_path # Absent
       THEN /\ out' = [out EXCEPT ![c] = Returned(Str(base_path))]
            /\ UNCHANGED <<pc, frame, io, session, async_session, me_requests>>
       ELSE get_base_path_gen_step(c, [NoFrame EXCEPT !.op = "base_path"])
    /\ UNCHANGED <<alive, username, password, otp_code, authorization, base_path, vvars, rvars>>

\* client.get_base_path(async_): never looks at the cache.
get_base_path(c, async) ==
    /\ alive = "ready"
    /\ pc[c] = "idle"
    /\ IF async
       THEN /\ pc' = [pc EXCEPT ![c] = "me_coro"]
            /\ frame' = [frame EXCEPT ![c] =
                    [NoFrame EXCEPT !.op = "get_base_path", !.async = TRUE]]
            /\ out' = [out EXCEPT ![c] = Running]
            /\ UNCHANGED <<io, session, async_session, me_requests>>
       ELSE get_base_path_gen_step(c, [NoFrame EXCEPT !.op = "get_base_path"])
    /\ UNCHANGED <<alive, username, password, otp_code, authorization, base_path, vvars, rvars>>

\* The coroutine returned by get_base_path(async_=True) is awaited.
get_base_path_await(c) ==
    /\ pc[c] = "me_coro"
    /\ get_base_path_gen_step(c, frame[c])
    /\ UNCHANGED <<alive, username, password, otp_code, authorization, base_path, vvars, rvars>>

\* client.get_url(path, ensure_ascii): reads self.base_path, which is looked
\* up first when nothing is cached.
get_url(c, path, ensure_ascii) ==
    /\ alive = "ready"
    /\ pc[c] = "idle"
    /\ IF base_path # Absent
       THEN /\ out' = [out EXCEPT ![c] =
                    Returned(Str(get_url_value[base_path, path, ensure_ascii]))]
            /\ UNCHANGED <<pc, frame, io, session, async_session, me_requests>>
       ELSE get_base_path_gen_step(c, [NoFrame EXCEPT !.op = "get_url", !.path = path,
                                                      !.ensure_ascii = ensure_ascii])
    /\ UNCHANGED <<alive, username, password, otp_code, authorization, base_path, vvars, rvars>>

\* get_base_path, line 321: return resp["data"]["base_path"]; when the call
\* came from the cached_property, the value is stored in self.__dict__, and
\* get_url goes on with it.
get_base_path_resume(c) ==
    /\ pc[c] = "me_io"
    /\ io[c].resp # None
    /\ LET resp == io[c].resp
       IN  IF resp = TransportError
           THEN /\ out' = [out EXCEPT ![c] = Raised("TransportError", "", None)]
                /\ UNCHANGED base_path
           ELSE IF resp.data = None
           THEN /\ out' = [out EXCEPT ![c] = Raised("TypeError", "", None)]
                /\ UNCHANGED base_path
           ELSE /\ out' = [out EXCEPT ![c] =
                        IF frame[c].op = "get_url"
                        THEN Returned(Str(get_url_value[resp.data.base_path, frame[c].path,
                                                       frame[c].ensure_ascii]))
                        ELSE Returned(Str(resp.data.base_path))]
                /\ base_path' = IF frame[c].op \in {"base_path", "get_url"}
                                THEN resp.data.base_path ELSE base_path
    /\ pc' = [pc EXCEPT ![c] = "idle"]
    /\ frame' = [frame EXCEPT ![c] = NoFrame]
    /\ io' = [io EXCEPT ![c] = NoIO]
    /\ UNCHANGED <<alive, username, password, otp_code, authorization,
                   session, async_session, me_requests, vvars, rvars>>

\* client.auth_me(async_=..., request=...): an endpoint method; each of them
\* is one call of self.request. In non-blocking mode the session is taken at
\* the call (line 232) and the request is sent when the result is awaited.
auth_me(c, async, custom) ==
    /\ alive = "ready"
    /\ pc[c] = "idle"
    /\ me_requests < MaxLookups
    /\ IF async /\ ~custom
       THEN /\ async_session' = cached_session(async_session, authorization)
            /\ pc' = [pc EXCEPT ![c] = "auth_me_coro"]
            /\ frame' = [frame EXCEPT ![c] =
                    [NoFrame EXCEPT !.op = "auth_me", !.async = TRUE,
                                    !.session = async_session']]
            /\ UNCHANGED <<io, session, me_requests>>
       ELSE /\ request(c, "GET", "/api/me", None, async, custom)
            /\ me_requests' = me_requests + 1
            /\ pc' = [pc EXCEPT ![c] = "auth_me_io"]
            /\ frame' = [frame EXCEPT ![c] =
                    [NoFrame EXCEPT !.op = "auth_me", !.async = async, !.custom = custom]]
    /\ out' = [out EXCEPT ![c] = Running]
    /\ UNCHANGED <<alive, username, password, otp_code, authorization, base_path, vvars, rvars>>

\* The awaitable returned by auth_me(async_=True) is awaited: the request
\* goes out through the session taken at the call.
auth_me_await(c) ==
    /\ pc[c] = "auth_me_coro"
    /\ io' = [io EXCEPT ![c] =
            [req |-> [method |-> "GET", url |-> "/api/me", json |-> None,
                      via |-> "async_session",
                      authorization |-> HeadersOf(frame[c].session, authorization)],
             resp |-> None]]
    /\ me_requests' = me_requests + 1
    /\ pc' = [pc EXCEPT ![c] = "auth_me_io"]
    /\ UNCHANGED <<alive, username, password, otp_code, authorization, base_path,
                   frame, out, session, async_session, vvars, rvars>>

\* The endpoint method returns the decoded envelope as it is.
auth_me_resume(c) ==
    /\ pc[c] = "auth_me_io"
    /\ io[c].resp # None
    /\ out' = [out EXCEPT ![c] = IF io[c].resp = TransportError
                                 THEN Raised("TransportError", "", None)
                                 ELSE Returned(io[c].resp)]
    /\ pc' = [pc EXCEPT ![c] = "idle"]
    /\ frame' = [frame EXCEPT ![c] = NoFrame]
    /\ io' = [io EXCEPT ![c] = NoIO]
    /\ UNCHANGED <<alive, username, password, otp_code, authorization, base_path,
                   session, async_session, me_requests, vvars, rvars>>

\* client.close(), lines 210-212: both sessions are dropped from __dict__.
close(c) ==
    /\ alive = "ready"
    /\ pc[c] = "idle"
    /\ session' = Absent
    /\ async_session' = Absent
    /\ out' = [out EXCEPT ![c] = Returned(None)]
    /\ UNCHANGED <<alive, username, password, otp_code, authorization, base_path,
                   pc, frame, io, me_requests, vvars, rvars>>

(***************************************************************************)
(* read_bytes: ranged reads (specification SpecReader)                     *)
(***************************************************************************)
\* Total lengths of the resource behind the url.
MaxLength == 3

Lengths == 0..MaxLength

\* start and stop arguments of read_bytes: from -MaxOffset to MaxOffset.
MaxOffset == 3

Offsets == (0 - MaxOffset)..MaxOffset

Starts == Offsets

Stops == {None} \cup {Integer(n) : n \in Offsets}

\* The bytes of the resource from position first up to, not including, stop.
Bytes(first, stop) == IF first < stop THEN [first |-> first, stop |-> stop]
                      ELSE [first |-> 0, stop |-> 0]

EmptyBytes == Bytes(0, 0)

NoCall == [op |-> "none", start |-> 0, stop |-> None, async |-> FALSE,
           size |-> 0, offset |-> 0]

\* Arguments of read_block: size and offset.
Sizes == Offsets

ReaderOff ==
    /\ r_pc = "off"
    /\ r_length = 0
    /\ r_args = NoCall
    /\ r_req = None
    /\ r_resp = None
    /\ r_pending = None
    /\ r_probe = "none"
    /\ r_log = << >>
    /\ r_out = Returned(None)

\* A client on which read_bytes can be called, and a resource of some length.
ReaderNew ==
    /\ r_pc = "idle"
    /\ r_length \in Lengths
    /\ r_args = NoCall
    /\ r_req = None
    /\ r_resp = None
    /\ r_pending = None
    /\ r_probe = "none"
    /\ r_log = << >>
    /\ r_out = Returned(None)

\* int(s) of a string of decimal digits.
RECURSIVE int(_)
int(s) ==
    IF Len(s) = 0 THEN 0
    ELSE 10 * int(SubSeq(s, 1, Len(s) - 1))
         + (CHOOSE d \in 0..9 : SubSeq("0123456789", d + 1, d + 1) = SubSeq(s, Len(s), Len(s)))

\* The server: the body it sends for a Range header "bytes=a-", "bytes=a-b"
\* or "bytes=-n" on a resource of the given length.
ServedBytes(range, length) ==
    LET spec == SubSeq(range, 7, Len(range))
        dash == CHOOSE i \in 1..Len(spec) : SubSeq(spec, i, i) = "-"
        left == SubSeq(spec, 1, dash - 1)
        right == SubSeq(spec, dash + 1, Len(spec))
        Min(a, b) == IF a < b THEN a ELSE b
        Max(a, b) == IF a < b THEN b ELSE a
    IN  IF left = "" THEN Bytes(Max(0, length - int(right)), length)
        ELSE IF right = "" THEN Bytes(int(left), length)
        ELSE Bytes(int(left), Min(int(right) + 1, length))

\* Responses to the probe: with or without a total length, with or without
\* an aclose method; or the transport fails.
ProbeResponses(length) ==
    { [total |-> t, has_aclose |-> a, body |-> ServedBytes("bytes=-1", length)] :
        t \in {None, Integer(length)}, a \in BOOLEAN }
    \cup {TransportError}

\* Line 2649, length = get_total_length(resp): the module neither defines
\* nor imports this name (line 37 imports get_content_length only), so the
\* call raises NameError whatever the response is.
get_total_length(resp) == Raised("NameError", "", Str("get_total_length"))

\* Lines 2644-2647: the probe request.
probe_request ==
    [Range |-> "bytes=-1", AcceptEncoding |-> "identity", parse |-> None]

\* read_bytes_range, lines 2721-2727: the request for a range.
read_bytes_range(bytes_range) ==
    [Range |-> "bytes=" \o bytes_range, AcceptEncoding |-> "identity", parse |-> Str("False")]

\* get_bytes_range, lines 2665-2667, where stop is None or an int.
get_bytes_range_compare(start, stop) ==
    IF stop = None THEN Raised("TypeError", "", Str(">= not supported between int and NoneType"))
    ELSE IF start >= stop.int THEN Returned(None)
    ELSE Returned(Str(decimal(start) \o "-" \o decimal(stop.int - 1)))

\* get_bytes_range, lines 2656-2667, once the probe has given a length.
get_bytes_range_normalize(start, stop, length) ==
    LET start1 == IF start < 0 THEN start + length ELSE start
        start2 == IF start1 < 0 THEN 0 ELSE start1
    IN  IF stop = None THEN Returned(Str(decimal(start2) \o "-"))
        ELSE get_bytes_range_compare(start2,
                 IF stop.int < 0 THEN Integer(stop.int + length) ELSE stop)

\* gen_step, lines 2668-2677, with the outcome of get_bytes_range.
read_bytes_continue(bytes_range) ==
    IF bytes_range.kind = "raise"
    THEN /\ r_out' = bytes_range
         /\ r_pc' = "done"
         /\ r_req' = None
         /\ UNCHANGED r_log
    ELSE IF bytes_range.value = None \/ bytes_range.value = Str("")
    THEN /\ r_out' = Returned(EmptyBytes)
         /\ r_pc' = "done"
         /\ r_req' = None
         /\ UNCHANGED r_log
    ELSE /\ r_req' = read_bytes_range(bytes_range.value.str)
         /\ r_log' = Append(r_log, r_req')
         /\ r_pc' = "data_io"
         /\ r_out' = Running

\* gen_step whose line 2637 looks at start only.
read_bytes_gen_step_probe_for_start_only(start, stop) ==
    IF start < 0
    THEN /\ r_req' = probe_request
         /\ r_log' = <<probe_request>>
         /\ r_pc' = "probe_io"
         /\ r_out' = Running
    ELSE LET bytes_range == get_bytes_range_compare(start, stop)
         IN  IF bytes_range.kind = "return" /\ bytes_range.value # None
             THEN /\ r_req' = read_bytes_range(bytes_range.value.str)
                  /\ r_log' = <<r_req'>>
                  /\ r_pc' = "data_io"
                  /\ r_out' = Running
             ELSE /\ r_req' = None
                  /\ r_log' = << >>
                  /\ r_pc' = "done"
                  /\ r_out' = IF bytes_range.kind = "raise" THEN bytes_range
                              ELSE Returned(EmptyBytes)

\* gen_step up to its first yield or its end: line 2637 decides whether the
\* length is probed.
read_bytes_gen_step(start, stop) ==
    IF start < 0 \/ (stop # None /\ stop.int # 0 /\ stop.int < 0)
    THEN /\ r_req' = probe_request
         /\ r_log' = <<probe_request>>
         /\ r_pc' = "probe_io"
         /\ r_out' = Running
    ELSE LET bytes_range == get_bytes_range_compare(start, stop)
         IN  IF bytes_range.kind = "return" /\ bytes_range.value # None
             THEN /\ r_req' = read_bytes_range(bytes_range.value.str)
                  /\ r_log' = <<r_req'>>
                  /\ r_pc' = "data_io"
                  /\ r_out' = Running
             ELSE /\ r_req' = None
                  /\ r_log' = << >>
                  /\ r_pc' = "done"
                  /\ r_out' = IF bytes_range.kind = "raise" THEN bytes_range
                              ELSE Returned(EmptyBytes)

\* client.read_bytes(url, start, stop, async_=...): in blocking mode gen_step
\* runs at once, otherwise a coroutine is returned.
read_bytes(start, stop, async) ==
    /\ r_pc \in {"idle", "done"}
    /\ r_args' = [NoCall EXCEPT !.op = "read_bytes", !.start = start, !.stop = stop,
                                !.async = async]
    /\ r_probe' = "none"
    /\ r_resp' = None
    /\ r_pending' = None
    /\ IF async
       THEN /\ r_pc' = "coro"
            /\ r_req' = None
            /\ r_log' = << >>
            /\ r_out' = Running
       ELSE read_bytes_gen_step(start, stop)
    /\ UNCHANGED <<r_length, svars, vvars>>

\* The coroutine returned by read_bytes(..., async_=True) is awaited.
read_bytes_await ==
    /\ r_pc = "coro"
    /\ read_bytes_gen_step(r_args.start, r_args.stop)
    /\ UNCHANGED <<r_args, r_probe, r_resp, r_pending, r_length, svars, vvars>>

\* What read_block(..., async_=True) returns for size <= 0, lines 2772-2774:
\* the object made by calling an async generator function.
AsyncGenerator == [async_generator |-> TRUE]

\* client.read_block(url, size, offset, async_=...), lines 2770-2783: for
\* size <= 0 nothing is read; otherwise read_bytes(url, offset, offset+size).
read_block(size, offset, async) ==
    /\ r_pc \in {"idle", "done"}
    /\ r_args' = [NoCall EXCEPT !.op = "read_block", !.start = offset,
                                !.stop = Integer(offset + size), !.async = async,
                                !.size = size, !.offset = offset]
    /\ r_probe' = "none"
    /\ r_resp' = None
    /\ r_pending' = None
    /\ IF size <= 0
       THEN /\ r_pc' = IF async THEN "returned" ELSE "done"
            /\ r_req' = None
            /\ r_log' = << >>
            /\ r_out' = IF async THEN Returned(AsyncGenerator) ELSE Returned(EmptyBytes)
       ELSE IF async
       THEN /\ r_pc' = "coro"
            /\ r_req' = None
            /\ r_log' = << >>
            /\ r_out' = Running
       ELSE read_bytes_gen_step(offset, Integer(offset + size))
    /\ UNCHANGED <<r_length, svars, vvars>>

\* The caller awaits what read_block(..., async_=True) returned for
\* size <= 0: an async generator object has no __await__, so the await
\* expression raises TypeError.
await_async_generator ==
    /\ r_pc = "returned"
    /\ r_out = Returned(AsyncGenerator)
    /\ r_out' = Raised("TypeError", "", Str("object async_generator can't be used in 'await' expression"))
    /\ r_pc' = "done"
    /\ UNCHANGED <<r_args, r_req, r_resp, r_pending, r_probe, r_log, r_length, svars, vvars>>

\* The server (or the transport) answers the probe.
probe_respond ==
    /\ r_pc = "probe_io"
    /\ r_resp = None
    /\ \E resp \in ProbeResponses(r_length) :
          /\ r_resp' = resp
          /\ r_probe' = IF resp = TransportError THEN "none" ELSE "open"
    /\ UNCHANGED <<r_pc, r_args, r_req, r_pending, r_log, r_out, r_length, svars, vvars>>

\* probe_resume with the length extracted outside any try / finally.
probe_resume_without_finally ==
    /\ r_pc = "probe_io"
    /\ r_resp # None
    /\ IF r_resp = TransportError
       THEN /\ r_out' = Raised("TransportError", "", None)
            /\ r_pc' = "done"
            /\ UNCHANGED r_pending
       ELSE /\ LET length == get_total_length(r_resp)
               IN  r_pending' =
                       IF length.kind = "raise" THEN length
                       ELSE IF length.value = None
                       THEN Raised("OSError", "ESPIPE", Str("can't determine content length"))
                       ELSE length
            /\ r_pc' = IF r_pending'.kind = "raise" THEN "done" ELSE "probe_close"
            /\ r_out' = IF r_pending'.kind = "raise" THEN r_pending' ELSE r_out
    /\ r_req' = None
    /\ UNCHANGED <<r_args, r_resp, r_probe, r_log, r_length, svars, vvars>>

\* get_bytes_range, lines 2648-2652: the try block after the probe; what it
\* raises or the length it finds is pending while the finally clause runs.
\* A failed request leaves nothing to close.
probe_resume ==
    /\ r_pc = "probe_io"
    /\ r_resp # None
    /\ IF r_resp = TransportError
       THEN /\ r_out' = Raised("TransportError", "", None)
            /\ r_pc' = "done"
            /\ UNCHANGED r_pending
       ELSE /\ LET length == get_total_length(r_resp)
               IN  r_pending' =
                       IF length.kind = "raise" THEN length
                       ELSE IF length.value = None
                       THEN Raised("OSError", "ESPIPE", Str("can't determine content length"))
                       ELSE length
            /\ r_pc' = "probe_close"
            /\ UNCHANGED r_out
    /\ r_req' = None
    /\ UNCHANGED <<r_args, r_resp, r_probe, r_log, r_length, svars, vvars>>

\* Lines 2653-2667: the finally clause closes the probe response (aclose in
\* non-blocking mode when the response has it), then the pending exception
\* goes on, or the range is normalized with the length.
probe_close ==
    /\ r_pc = "probe_close"
    /\ r_probe' = IF r_args.async /\ r_resp.has_aclose THEN "aclose" ELSE "close"
    /\ read_bytes_continue(
           IF r_pending.kind = "raise" THEN r_pending
           ELSE get_bytes_range_normalize(r_args.start, r_args.stop, r_pending.value.int))
    /\ UNCHANGED <<r_args, r_resp, r_pending, r_length, svars, vvars>>

\* The server (or the transport) answers the ranged request.
data_respond ==
    /\ r_pc = "data_io"
    /\ r_req # None
    /\ \E resp \in {[body |-> ServedBytes(r_req.Range, r_length)], TransportError} :
          r_resp' = resp
    /\ r_req' = None
    /\ UNCHANGED <<r_pc, r_args, r_pending, r_probe, r_log, r_out, r_length, svars, vvars>>

\* gen_step, line 2671: the body of the ranged response is returned.
read_bytes_resume ==
    /\ r_pc = "data_io"
    /\ r_req = None
    /\ r_out' = IF r_resp = TransportError THEN Raised("TransportError", "", None)
                ELSE Returned(r_resp.body)
    /\ r_pc' = "done"
    /\ UNCHANGED <<r_args, r_req, r_resp, r_pending, r_probe, r_log, r_length, svars, vvars>>

ValidatorOff ==
    /\ v_env = None
    /\ v_func = [p \in Paths |-> None]
    /\ v_pc = [p \in Paths |-> "off"]
    /\ v_coro = [p \in Paths |-> None]
    /\ v_resp = [p \in Paths |-> None]
    /\ v_out = [p \in Paths |-> Running]

\* Before AlistClient(...) is called.
ClientNew ==
    /\ alive = "new"
    /\ username = ""
    /\ password = ""
    /\ otp_code = ""
    /\ authorization = Absent
    /\ base_path = Absent
    /\ session = Absent
    /\ async_session = Absent
    /\ me_requests = 0
    /\ pc = [c \in Callers |-> "idle"]
    /\ frame = [c \in Callers |-> NoFrame]
    /\ io = [c \in Callers |-> NoIO]
    /\ out = [c \in Callers |-> Returned(None)]

\* A constructed client without a username: nothing was sent.
ClientReady ==
    /\ alive = "ready"
    /\ username = ""
    /\ password = ""
    /\ otp_code = ""
    /\ authorization = Absent
    /\ base_path = Absent
    /\ session = Absent
    /\ async_session = Absent
    /\ me_requests = 0
    /\ pc = [c \in Callers |-> "idle"]
    /\ frame = [c \in Callers |-> NoFrame]
    /\ io = [c \in Callers |-> NoIO]
    /\ out = [c \in Callers |-> Returned(None)]

InitValidator ==
    /\ ClientNew
    /\ ReaderOff
    /\ v_env \in Envelopes
    /\ v_func = [p \in Paths |-> FuncFor(p, v_env)]
    /\ v_pc = [p \in Paths |-> "call"]
    /\ v_coro = [p \in Paths |-> None]
    /\ v_resp = [p \in Paths |-> None]
    /\ v_out = [p \in Paths |-> Running]

NextValidator ==
    \/ \E p \in Paths : check_response_dict(p)
    \/ \E p \in Paths : check_response_awaitable(p)
    \/ \E p \in Paths : check_response_callable(p)
    \/ \E p \in Paths : wrapper(p)
    \/ \E p \in Paths : check_code_async_await(p)
    \/ \E p \in Paths : check_code_async_resume(p)

SpecValidator == InitValidator /\ [][NextValidator]_vars

Init == ClientNew /\ ValidatorOff /\ ReaderOff

\* The operations of the callers in cs, with the server's answers.
ClientNext(cs) ==
    \/ \E u \in Usernames \cup {""}, p \in Passwords \cup {""}, o \in OtpCodes \cup {""} :
          AlistClient_init(u, p, o)
    \/ \E c \in cs, u \in Usernames \cup {""}, p \in Passwords \cup {""},
          o \in OtpCodes \cup {""}, h \in BOOLEAN, a \in BOOLEAN :
          login(c, u, p, o, h, a)
    \/ \E c \in cs : login_await(c)
    \/ \E c \in cs, attr \in Attrs, val \in Vals : setattr(c, attr, val)
    \/ \E c \in cs : server_respond(c)
    \/ \E c \in cs : login_resume(c)
    \/ \E c \in cs : base_path_get(c)
    \/ \E c \in cs, a \in BOOLEAN : get_base_path(c, a)
    \/ \E c \in cs : get_base_path_await(c)
    \/ \E c \in cs, path \in UrlPaths, e \in BOOLEAN : get_url(c, path, e)
    \/ \E c \in cs : get_base_path_resume(c)
    \/ \E c \in cs, a \in BOOLEAN, r \in BOOLEAN : auth_me(c, a, r)
    \/ \E c \in cs : auth_me_await(c)
    \/ \E c \in cs : auth_me_resume(c)
    \/ \E c \in cs : close(c)

\* The callers that act: one, so that every operation completes before the
\* next one starts.
Active == {1}

Next == ClientNext(Active)

Spec == Init /\ [][Next]_vars

\* Several callers use one constructed client at the same time (threads in
\* blocking mode, tasks in non-blocking mode): each step is the part of a
\* call between two of its I/O boundaries.
InitConcurrent == ClientReady /\ ValidatorOff /\ ReaderOff

NextConcurrent ==
    \/ \E c \in Callers, u \in Usernames, p \in Passwords, a \in BOOLEAN :
          login(c, u, p, "", TRUE, a)
    \/ \E c \in Callers : login_await(c)
    \/ \E c \in Callers : server_respond(c)
    \/ \E c \in Callers : login_resume(c)
    \/ \E c \in Callers : base_path_get(c)
    \/ \E c \in Callers : get_base_path_resume(c)

SpecConcurrent == InitConcurrent /\ [][NextConcurrent]_vars

InitReader == ClientReady /\ ValidatorOff /\ ReaderNew

NextReader ==
    \/ \E start \in Starts, stop \in Stops, async \in BOOLEAN : read_bytes(start, stop, async)
    \/ read_bytes_await
    \/ \E size \in Sizes, offset \in Offsets, async \in BOOLEAN : read_block(size, offset, async)
    \/ await_async_generator
    \/ probe_respond
    \/ probe_resume
    \/ probe_close
    \/ data_respond
    \/ read_bytes_resume

SpecReader == InitReader /\ [][NextReader]_vars

(***************************************************************************)
(* Properties of check_response (specification SpecValidator)              *)
(***************************************************************************)
Success(code) == 200 <= code /\ code < 300

\* The rows of the failure table for code 500, in the order of the table.
RowMatches(i, message) ==
    CASE i = 1 -> \/ endswith(message, "object not found")
                  \/ startswith(message, "failed get storage: storage not found")
      [] i = 2 -> endswith(message, "not a folder")
      [] i = 3 -> endswith(message, "file exists")
      [] i = 4 -> startswith(message, "failed get ")

RowFailure == << [exc |-> "FileNotFoundError", errno |-> "ENOENT"],
                 [exc |-> "NotADirectoryError", errno |-> "ENOTDIR"],
                 [exc |-> "FileExistsError", errno |-> "EEXIST"],
                 [exc |-> "PermissionError", errno |-> "EPERM"] >>

Rows == 1..4

\* The earliest row a message satisfies, 0 when it satisfies none.
FirstRow(message) ==
    IF \E i \in Rows : RowMatches(i, message)
    THEN CHOOSE i \in Rows : /\ RowMatches(i, message)
                             /\ \A j \in Rows : j < i => ~RowMatches(j, message)
    ELSE 0

Done(p) == v_pc[p] = "done"

\* C1: every envelope with 200 <= code < 300, whatever its message and data,
\* is returned unchanged and nothing is raised.
C1_SuccessReturnsEnvelope ==
    \A p \in Paths :
        Done(p) /\ Success(v_env.code) => v_out[p] = Returned(v_env)

C1_Witness ==
    /\ Done("dict")
    /\ v_env.code = 200
    /\ v_env.message = "failed get path is object not found"
    /\ v_out["dict"] = Returned(v_env)

\* C2: the failure mapping is first-match-wins with the code tested before
\* the message: a success code or 403 decides alone, a code-500 message that
\* satisfies several rows is classified by the earliest one, the message
\* rules apply to no other code, and every envelope has exactly one outcome.
C2_FirstMatchWins ==
    \A p \in Paths : Done(p) =>
        /\ v_out[p].kind \in {"return", "raise"}
        /\ (v_out[p].kind = "return") = Success(v_env.code)
        /\ v_env.code = 403 => v_out[p].exc = "PermissionError" /\ v_out[p].errno = "EACCES"
        /\ v_env.code = 500 /\ FirstRow(v_env.message) # 0 =>
              /\ v_out[p].exc = RowFailure[FirstRow(v_env.message)].exc
              /\ v_out[p].errno = RowFailure[FirstRow(v_env.message)].errno
        /\ ~Success(v_env.code) /\ v_env.code \notin {403, 500} =>
              v_out[p].errno \notin {RowFailure[i].errno : i \in Rows}

C2_Witness ==
    /\ Done("dict")
    /\ v_env.code = 500
    /\ v_env.message = "failed get path is not a folder"
    /\ RowMatches(2, v_env.message) /\ RowMatches(4, v_env.message)
    /\ v_out["dict"].exc = "NotADirectoryError"

\* C3: for code 403 and any message, the failure is PermissionError(EACCES).
C3_Code403PermissionDenied ==
    \A p \in Paths :
        Done(p) /\ v_env.code = 403 =>
            v_out[p] = Raised("PermissionError", "EACCES", v_env)

C3_Witness ==
    /\ Done("dict")
    /\ v_env.code = 403
    /\ endswith(v_env.message, "object not found")
    /\ v_out["dict"].exc = "PermissionError"

\* C4: for code 500, a message that ends with "object not found" or starts
\* with "failed get storage: storage not found" fails with FileNotFoundError.
C4_Code500NotFound ==
    \A p \in Paths :
        ( /\ Done(p)
          /\ v_env.code = 500
          /\ \/ endswith(v_env.message, "object not found")
             \/ startswith(v_env.message, "failed get storage: storage not found") )
        => v_out[p] = Raised("FileNotFoundError", "ENOENT", v_env)

C4_Witness ==
    /\ Done("dict")
    /\ v_env.code = 500
    /\ v_env.message = "failed get storage: storage not found: y "
    /\ startswith(v_env.message, "failed get ")
    /\ v_out["dict"].exc = "FileNotFoundError"

\* C5: for code 500, a message that ends with "not a folder" and matches no
\* NotFound rule fails with NotADirectoryError; one that ends with
\* "file exists" and matches no earlier rule fails with FileExistsError.
C5_Code500NotADirectoryOrExists ==
    \A p \in Paths : Done(p) /\ v_env.code = 500 =>
        /\ RowMatches(2, v_env.message) /\ ~RowMatches(1, v_env.message)
              => v_out[p] = Raised("NotADirectoryError", "ENOTDIR", v_env)
        /\ ( /\ RowMatches(3, v_env.message)
             /\ ~RowMatches(1, v_env.message)
             /\ ~RowMatches(2, v_env.message) )
              => v_out[p] = Raised("FileExistsError", "EEXIST", v_env)

C5_Witness ==
    /\ Done("dict")
    /\ v_env.code = 500
    /\ v_env.message = "file exists"
    /\ v_out["dict"].exc = "FileExistsError"

\* C6: for code 500, a message that starts with "failed get " and matches no
\* earlier rule fails with PermissionError(EPERM); its errno tells it from
\* the PermissionError(EACCES) of code 403.
C6_OperationLevelPermission ==
    \A p \in Paths : Done(p) =>
        /\ ( /\ v_env.code = 500
             /\ RowMatches(4, v_env.message)
             /\ \A i \in 1..3 : ~RowMatches(i, v_env.message) )
              => v_out[p] = Raised("PermissionError", "EPERM", v_env)
        /\ v_out[p].exc = "PermissionError" =>
              /\ (v_out[p].errno = "EPERM") = (v_env.code = 500)
              /\ (v_out[p].errno = "EACCES") = (v_env.code = 403)

C6_Witness ==
    /\ Done("dict")
    /\ v_env.code = 500
    /\ v_env.message = "failed get path is success"
    /\ v_out["dict"] = Raised("PermissionError", "EPERM", v_env)

\* C7 as stated: every envelope whose code is outside [200,300) and is not
\* 403 fails with OSError(EIO) carrying the envelope.
C7_AsStated ==
    \A p \in Paths :
        Done(p) /\ ~Success(v_env.code) /\ v_env.code # 403 =>
            v_out[p] = Raised("OSError", "EIO", v_env)

\* C7 amended: every envelope whose code is outside [200,300) and is neither
\* 403 nor 500, and every code-500 envelope whose message matches no row,
\* fails with OSError(EIO) carrying the envelope; no envelope with a code
\* outside [200,300) is returned.
C7_CatchAll ==
    \A p \in Paths : Done(p) =>
        /\ ( \/ ~Success(v_env.code) /\ v_env.code \notin {403, 500}
             \/ v_env.code = 500 /\ FirstRow(v_env.message) = 0 )
              => v_out[p] = Raised("OSError", "EIO", v_env)
        /\ ~Success(v_env.code) => v_out[p].kind = "raise"

C7_Witness ==
    /\ Done("dict")
    /\ v_env.code = 404
    /\ v_env.message = "x object not found"
    /\ v_out["dict"] = Raised("OSError", "EIO", v_env)

\* C8: the outcome is the same whether the envelope is validated directly,
\* awaited, or passed through a wrapped callable in either mode; on the
\* asynchronous paths nothing is classified before the envelope is there.
C8_SameOutcomeInBothModes ==
    /\ \A p, q \in Paths : Done(p) /\ Done(q) => v_out[p] = v_out[q]
    /\ \A p \in Paths :
          /\ v_out[p] # Running => v_resp[p] = v_env
          /\ v_pc[p] = "coroutine" => v_out[p] = Running /\ v_resp[p] = None

C8_Witness ==
    /\ \A p \in Paths : Done(p)
    /\ v_env.code = 500
    /\ v_out["callable_async"].exc = "FileExistsError"
    /\ v_out["dict"].exc = "FileExistsError"

(***************************************************************************)
(* Properties of login and base_path (specification Spec)                  *)
(***************************************************************************)
\* The step in which caller c's login is resumed with an envelope.
LoginAnswered(c) ==
    /\ pc[c] = "login_io"
    /\ pc'[c] = "idle"
    /\ io[c].resp # TransportError

\* C9: when a login with a non-empty username is answered with a code in
\* [200,300) and returns, the Authorization header is data.token of that
\* response and no base_path is cached; a base_path access that finds
\* nothing cached issues an identity lookup (GET /api/me).
C9_LoginStoresTokenAndInvalidates ==
    [][ \A c \in Callers :
          /\ ( /\ LoginAnswered(c)
               /\ io[c].req.json.username # ""
               /\ Success(io[c].resp.code)
               /\ out'[c].kind = "return" )
             => /\ authorization' = io[c].resp.data.token
                /\ base_path' = Absent
          /\ base_path_get(c) /\ base_path = Absent
             => /\ pc'[c] = "me_io"
                /\ io'[c].req.method = "GET"
                /\ io'[c].req.url = "/api/me"
                /\ io'[c].req.authorization = authorization
      ]_vars

C9_Witness ==
    /\ alive = "ready"
    /\ pc[1] = "me_io"
    /\ frame[1].op = "base_path"
    /\ username = "bob"
    /\ authorization = TokenFor("bob")
    /\ base_path = Absent
    /\ io[1].req.authorization = TokenFor("bob")

\* C10: when the login response has a code outside [200,300), login raises
\* OSError(EINVAL) carrying that envelope and the Authorization header is
\* left as it was: the token of that response is not stored.
C10_LoginFailureRaisesEINVAL ==
    [][ \A c \in Callers :
          LoginAnswered(c) /\ ~Success(io[c].resp.code)
          => /\ out'[c] = Raised("OSError", "EINVAL", io[c].resp)
             /\ authorization' = authorization
      ]_vars

C10_Witness ==
    /\ alive = "ready"
    /\ pc[1] = "idle"
    /\ out[1].kind = "raise" /\ out[1].exc = "OSError" /\ out[1].errno = "EINVAL"
    /\ out[1].value.code = 403
    /\ out[1].value.data = [token |-> TokenFor("bob")]
    /\ authorization = TokenFor("alice")

(***************************************************************************)
(* Logout, base_path caching, attribute assignment, construction, headers  *)
(***************************************************************************)
\* gen_step of a login whose resulting username is empty runs in this step:
\* at the call in blocking mode (login itself, or login() from __setattr__),
\* at the await otherwise.
LoginWithEmptyUsername(c) ==
    \/ /\ pc[c] = "idle" /\ username' = ""
       /\ \E u \in Usernames \cup {""}, p \in Passwords \cup {""},
             o \in OtpCodes \cup {""}, h \in BOOLEAN : login(c, u, p, o, h, FALSE)
    \/ /\ pc[c] = "login_coro" /\ frame[c].username = ""
       /\ login_await(c)
    \/ /\ pc[c] = "idle" /\ username = ""
       /\ \E attr \in {"password", "otp_code"}, val \in Vals : setattr(c, attr, val)

\* C11: when login is called and the resulting username (argument, else
\* stored value) is empty, no network request is issued, a stored
\* Authorization header is removed and the cached base_path is invalidated,
\* whatever the state before the call was.
C11_LogoutClearsHeaderAndBasePath ==
    [][ \A c \in Active :
          LoginWithEmptyUsername(c)
          => /\ authorization' = Absent
             /\ base_path' = Absent
             /\ io' = io
             /\ io'[c].req = None
             /\ me_requests' = me_requests
             /\ pc'[c] = "idle"
      ]_vars

C11_Witness ==
    /\ alive = "ready"
    /\ pc[1] = "idle"
    /\ username = ""
    /\ password = "pw"
    /\ session # Absent
    /\ me_requests = 1
    /\ authorization = Absent
    /\ base_path = Absent
    /\ out[1] = Returned(None)

\* The call hands back the cached base_path, or the URL made from it.
ReadsCache(c) ==
    \/ /\ base_path_get(c)
       /\ out'[c] = Returned(Str(base_path))
    \/ \E path \in UrlPaths, e \in BOOLEAN :
          /\ get_url(c, path, e)
          /\ out'[c] = Returned(Str(get_url_value[base_path, path, e]))

\* C12: after a login has invalidated base_path, the next base_path access
\* sends one GET /api/me and caches data.base_path of the answer; every later
\* base_path access and every get_url call returns the cached value and sends
\* no identity lookup; only a login takes the cached value away.
C12_BasePathLookedUpOnceThenCached ==
    [][ \A c \in Active :
          /\ base_path = Absent /\ base_path_get(c)
             => /\ me_requests' = me_requests + 1
                /\ io'[c].req.method = "GET"
                /\ io'[c].req.url = "/api/me"
                /\ pc'[c] = "me_io"
          /\ ( /\ pc[c] = "me_io"
               /\ frame[c].op = "base_path"
               /\ io[c].resp # None
               /\ io[c].resp # TransportError
               /\ io[c].resp.data # None
               /\ get_base_path_resume(c) )
             => /\ base_path' = io[c].resp.data.base_path
                /\ out'[c] = Returned(Str(base_path'))
                /\ me_requests' = me_requests
          /\ ( /\ base_path # Absent
               /\ pc[c] = "idle"
               /\ \/ base_path_get(c)
                  \/ \E path \in UrlPaths, e \in BOOLEAN : get_url(c, path, e) )
             => /\ ReadsCache(c)
                /\ me_requests' = me_requests
                /\ io' = io
                /\ base_path' = base_path
          /\ base_path # Absent /\ base_path' # base_path
             => /\ base_path' = Absent
                /\ \E d \in Active :
                      \/ LoginWithEmptyUsername(d)
                      \/ LoginAnswered(d) /\ Success(io[d].resp.code)
      ]_vars

C12_Witness ==
    /\ alive = "ready"
    /\ pc[1] = "idle"
    /\ me_requests = 2
    /\ authorization = TokenFor("bob")
    /\ base_path = "/bob"
    /\ out[1] = Returned(Str(get_url_of("/bob", "/a b#c?d", TRUE)))

\* C13: in every state between operations, a cached base_path is the value
\* the identity lookup gives under the Authorization header of that state
\* (the guest's value while there is no header).
C13_BasePathMatchesActiveToken ==
    \A c \in Active :
        pc[c] = "idle" /\ base_path # Absent => base_path = BasePathOf(authorization)

C13_Witness ==
    /\ alive = "ready"
    /\ pc[1] = "idle"
    /\ me_requests = 2
    /\ username = "bob"
    /\ authorization = TokenFor("bob")
    /\ base_path = "/bob"
    /\ out[1] = Returned(Str("/bob"))

\* The assignment leads to a new login: its request is in flight, or (with
\* no username) the client has been logged out.
ReloginForced(c) ==
    \/ /\ pc'[c] = "login_io"
       /\ io'[c].req.method = "POST"
       /\ io'[c].req.json.username = username'
    \/ /\ username' = ""
       /\ authorization' = Absent
       /\ base_path' = Absent

\* C14: an assignment to username, password or otp_code stores str(val) and
\* forces a new login, for each of the three attributes.
C14_AssignmentForcesRelogin ==
    [][ \A c \in Active, attr \in {"username", "password", "otp_code"}, val \in Vals :
          setattr(c, attr, val)
          => /\ attr = "username" => username' = str(val)
             /\ attr = "password" => password' = str(val)
             /\ attr = "otp_code" => otp_code' = str(val)
             /\ ReloginForced(c)
      ]_vars

\* C15: AlistClient(...) with a username sends the login request with the
\* given password and otp_code before it returns, and a failed login is
\* raised out of the constructor; with an empty username it sends nothing
\* and the client has no Authorization header.
C15_ConstructorLogsIn ==
    [][ /\ \A u \in Usernames \cup {""}, p \in Passwords \cup {""}, o \in OtpCodes \cup {""} :
             AlistClient_init(u, p, o)
             => IF u # ""
                THEN /\ alive' = "init"
                     /\ pc'[1] = "login_io"
                     /\ io'[1].req.method = "POST"
                     /\ io'[1].req.url = "/api/auth/login/hash"
                     /\ io'[1].req.json =
                            [username |-> u, password |-> hashed(p), otp_code |-> o]
                ELSE /\ alive' = "ready"
                     /\ io'[1].req = None
                     /\ authorization' = Absent
        /\ \A c \in Active :
             LoginAnswered(c) /\ frame[c].ctor /\ ~Success(io[c].resp.code)
             => /\ out'[c] = Raised("OSError", "EINVAL", io[c].resp)
                /\ alive' = "failed"
      ]_vars

C15_Witness ==
    /\ alive = "failed"
    /\ username = "alice"
    /\ otp_code = "123456"
    /\ out[1].kind = "raise" /\ out[1].exc = "OSError" /\ out[1].errno = "EINVAL"
    /\ out[1].value.code = 300
    /\ authorization = Absent

\* The step puts a new request of caller c on the wire.
Sends(c) == io[c].req = None /\ io'[c].req # None

\* C16: every request the client sends, through the blocking session, the
\* non-blocking session (also one made after close) or a callable of the
\* caller, carries the Authorization header of the client, which is the
\* token of the last successful login and is absent after a logout; both
\* sessions hold the header state of the client.
C16_RequestsCarryCurrentToken ==
    [][ \A c \in Active :
          /\ Sends(c) => io'[c].req.authorization = authorization
          /\ authorization' # authorization
             => \E d \in Active :
                   \/ /\ LoginAnswered(d) /\ Success(io[d].resp.code)
                      /\ authorization' = io[d].resp.data.token
                   \/ /\ LoginWithEmptyUsername(d)
                      /\ authorization' = Absent
          /\ session' # Absent => HeadersOf(session', authorization') = authorization'
          /\ async_session' # Absent
             => HeadersOf(async_session', authorization') = authorization'
      ]_vars

C16_Witness ==
    /\ alive = "ready"
    /\ pc[1] = "auth_me_io"
    /\ session = Absent
    /\ async_session # Absent
    /\ username = "alice"
    /\ authorization = TokenFor("bob")
    /\ io[1].req.via = "async_session"
    /\ io[1].req.authorization = TokenFor("bob")

(***************************************************************************)
(* Properties of read_bytes (specification SpecReader)                     *)
(***************************************************************************)
\* gen_step of a read_bytes call starts in this step: at the call in
\* blocking mode, at the await otherwise. Its arguments are r_args'.
GenStepStarts ==
    \/ /\ r_pc \in {"idle", "done"}
       /\ r_pc' # r_pc \/ r_args' # r_args
       /\ ~r_args'.async
       /\ ~(r_args'.op = "read_block" /\ r_args'.size <= 0)
    \/ r_pc = "coro"

\* The step sends the ranged request for bytes_range.
Fetches(bytes_range) ==
    /\ r_pc' = "data_io"
    /\ r_req' # None
    /\ r_req' = [Range |-> "bytes=" \o bytes_range, AcceptEncoding |-> "identity",
                 parse |-> Str("False")]

\* The probe has been answered with total length L and its response is
\* being closed; what follows is the normalization.
ProbedLength(L) ==
    /\ r_pc = "probe_close"
    /\ r_resp.total = Integer(L)

NormalizedStart(L) ==
    IF r_args.start >= 0 THEN r_args.start
    ELSE IF L + r_args.start < 0 THEN 0 ELSE L + r_args.start

NormalizedStop(L) ==
    IF r_args.stop.int < 0 THEN L + r_args.stop.int ELSE r_args.stop.int

\* C17: with start >= 0 and stop None or >= 0 no probe is sent; the range
\* requested is "{start}-" when stop is None and "{start}-{stop-1}" when
\* stop is an integer above start; read_bytes(url) fetches "0-".
C17_AbsoluteRangeWithoutProbe ==
    [][ ( /\ GenStepStarts
          /\ r_args'.start >= 0
          /\ r_args'.stop = None \/ r_args'.stop.int >= 0 )
        => /\ r_pc' # "probe_io"
           /\ \A i \in 1..Len(r_log') : r_log'[i] # probe_request
           /\ r_args'.stop = None => Fetches(decimal(r_args'.start) \o "-")
           /\ r_args'.stop # None /\ r_args'.stop.int > r_args'.start
              => Fetches(decimal(r_args'.start) \o "-" \o decimal(r_args'.stop.int - 1))
      ]_vars

\* C18: with start < 0 and stop None, on a resource whose probe reports the
\* total length L, the call probes once and then fetches the open range
\* "{max(0, L+start)}-".
C18_NegativeStartOpenRange ==
    [][ \A L \in Lengths :
          ( /\ ProbedLength(L)
            /\ r_args.start < 0
            /\ r_args.stop = None )
          => /\ Fetches(decimal(NormalizedStart(L)) \o "-")
             /\ r_log' = <<probe_request, r_req'>>
      ]_vars

\* C19: with stop < 0, on a resource of total length L, stop becomes
\* L + stop (start becomes max(0, L+start) when negative) and, when that
\* start is below that stop, the range fetched is "{start}-{L+stop-1}".
C19_NegativeStopExcludesTail ==
    [][ \A L \in Lengths :
          ( /\ ProbedLength(L)
            /\ r_args.stop # None
            /\ r_args.stop.int < 0
            /\ NormalizedStart(L) < L + r_args.stop.int )
          => Fetches(decimal(NormalizedStart(L)) \o "-"
                     \o decimal(L + r_args.stop.int - 1))
      ]_vars

\* C20: whenever start >= stop after normalization, with both known,
\* read_bytes returns empty bytes and sends no ranged request; with both
\* arguments non-negative it sends no request at all.
C20_EmptyRangeReturnsEmptyBytes ==
    [][ /\ ( /\ GenStepStarts
             /\ r_args'.start >= 0
             /\ r_args'.stop # None
             /\ r_args'.stop.int >= 0
             /\ r_args'.start >= r_args'.stop.int )
           => /\ r_out' = Returned(EmptyBytes)
              /\ r_pc' = "done"
              /\ r_req' = None
              /\ r_log' = << >>
        /\ \A L \in Lengths :
             ( /\ ProbedLength(L)
               /\ r_args.stop # None
               /\ NormalizedStart(L) >= NormalizedStop(L) )
             => /\ r_out' = Returned(EmptyBytes)
                /\ r_pc' = "done"
                /\ r_req' = None
                /\ r_log' = <<probe_request>>
      ]_vars

\* The requests of the call, probes left out.
RangedRequests(log) == {i \in 1..Len(log) : log[i] # probe_request}

\* The arguments ask for a position counted from the end.
RelativeToEnd(args) == args.start < 0 \/ (args.stop # None /\ args.stop.int < 0)

\* C21: a read_bytes call sends at most two requests: the probe (Range
\* bytes=-1, Accept-Encoding identity) exactly when start < 0 or stop < 0,
\* once and before anything else, then at most one ranged request (Range
\* bytes={range}, Accept-Encoding identity); a call that resolves a range
\* sends exactly one ranged request and nothing after it.
C21_AtMostProbeThenOneFetch ==
    [][ /\ Len(r_log') <= 2
        /\ \A i \in 1..Len(r_log') :
              /\ r_log'[i] = probe_request => i = 1
              /\ r_log'[i].AcceptEncoding = "identity"
              /\ startswith(r_log'[i].Range, "bytes=")
        /\ Cardinality(RangedRequests(r_log')) <= 1
        /\ GenStepStarts
           => ( (Len(r_log') >= 1 /\ r_log'[1] = probe_request) <=> RelativeToEnd(r_args') )
        /\ r_pc \in {"probe_io", "probe_close", "data_io"}
           => /\ Len(r_log) <= Len(r_log')
              /\ SubSeq(r_log', 1, Len(r_log)) = r_log
        /\ r_pc' = "data_io" => Cardinality(RangedRequests(r_log')) = 1
        /\ r_pc = "data_io" => r_log' = r_log
      ]_vars

C21_Witness ==
    /\ r_pc = "done"
    /\ r_args.op = "read_bytes"
    /\ r_args.async
    /\ r_length = 3
    /\ r_log = <<read_bytes_range("1-2")>>
    /\ r_out = Returned(Bytes(1, 3))

\* C22: once a probe response has been obtained, it is closed (by aclose in
\* non-blocking mode when the response has it, by close otherwise) before a
\* ranged request is sent and before the call returns or fails, also when
\* no length comes out of the response.
C22_ProbeClosedBeforeGoingOn ==
    [][ /\ r_probe = "open" /\ r_probe' # "open"
           => r_probe' = IF r_args.async /\ r_resp.has_aclose THEN "aclose" ELSE "close"
        /\ r_probe' = "open"
           => /\ r_pc' \in {"probe_io", "probe_close"}
              /\ r_log' = <<probe_request>>
        /\ r_pc = "probe_close" => r_probe = "open" /\ r_probe' # "open"
      ]_vars

C22_Witness ==
    /\ r_pc = "done"
    /\ r_args.async
    /\ r_probe = "aclose"
    /\ r_log = <<probe_request>>
    /\ r_resp.total = None
    /\ r_out.kind = "raise"

\* C23: when the probe response gives no total length, read_bytes fails
\* with OSError(ESPIPE) and sends no ranged request; when it gives one, the
\* call does not fail in the length extraction.
C23_NoLengthRaisesESPIPE ==
    [][ r_pc = "probe_close"
        => IF r_resp.total = None
           THEN /\ r_out'.kind = "raise"
                /\ r_out'.exc = "OSError"
                /\ r_out'.errno = "ESPIPE"
                /\ r_pc' = "done"
                /\ r_log' = r_log
           ELSE r_out'.kind # "raise"
      ]_vars

\* C24: read_block with size <= 0 sends nothing and gives empty bytes for
\* every offset: returned in blocking mode, and as the result of awaiting
\* the returned object in non-blocking mode.
C24_NonPositiveSizeGivesEmptyBytes ==
    (r_pc = "done" /\ r_args.op = "read_block" /\ r_args.size <= 0)
    => r_out = Returned(EmptyBytes) /\ r_log = << >>

\* C25: read_block with size > 0 and offset < 0, on a resource of total
\* length L with L + offset >= 0, requests the bytes from L+offset up to,
\* not including, min(L, L+offset+size).
C25_NegativeOffsetWindow ==
    [][ \A L \in Lengths :
          ( /\ ProbedLength(L)
            /\ r_args.op = "read_block"
            /\ r_args.size > 0
            /\ r_args.offset < 0
            /\ L + r_args.offset >= 0 )
          => LET last == IF L < L + r_args.offset + r_args.size
                         THEN L ELSE L + r_args.offset + r_args.size
             IN  Fetches(decimal(L + r_args.offset) \o "-" \o decimal(last - 1))
      ]_vars

(***************************************************************************)
(* get_url, attribute assignment and failed logins (specification Spec)    *)
(***************************************************************************)
\* C26: get_url round-trips in both modes: taking origin + "/d" off the URL
\* and percent-decoding the rest gives base_path + path (path alone when
\* base_path is "/").
C26_GetUrlRoundTrips ==
    [][ \A c \in Active, path \in UrlPaths, e \in BOOLEAN :
          ( /\ base_path # Absent
            /\ pc[c] = "idle"
            /\ get_url(c, path, e) )
          => /\ startswith(out'[c].value.str, Origin \o "/d")
             /\ unquote(SubSeq(out'[c].value.str, Len(Origin) + 3, Len(out'[c].value.str)))
                = (IF base_path # "/" THEN base_path \o path ELSE path)
      ]_vars

\* C27: an assignment raises TypeError exactly when the attribute is not
\* username, password or otp_code: any other attribute is rejected and
\* nothing changes; an assignment to one of the three completes without
\* TypeError when the login it forces succeeds.
C27_TypeErrorOnlyForOtherAttributes ==
    [][ \A c \in Active :
          /\ \A attr \in Attrs, val \in Vals :
                ( /\ pc[c] = "idle"
                  /\ setattr(c, attr, val)
                  /\ pc'[c] = "idle" )
                => IF attr \in {"username", "password", "otp_code"}
                   THEN out'[c].kind = "return"
                   ELSE /\ out'[c] = CantSetAttribute
                        /\ UNCHANGED <<alive, username, password, otp_code, authorization,
                                       base_path, session, async_session, io>>
          /\ ( /\ LoginAnswered(c)
               /\ frame[c].setattr
               /\ Success(io[c].resp.code)
               /\ io[c].resp.data # None )
             => out'[c] = Returned(None)
      ]_vars

\* The call of caller c ends as a failed login.
LoginFails(c) ==
    /\ pc[c] = "login_io"
    /\ pc'[c] = "idle"
    /\ \/ io[c].resp = TransportError
       \/ ~Success(io[c].resp.code)

\* C28: a login that fails (code outside [200,300), or the transport fails)
\* leaves the session state as the call found it: username, password,
\* otp_code, the Authorization header and the cached base_path.
C28_FailedLoginChangesNothing ==
    [][ \A c \in Active :
          LoginFails(c)
          => /\ username' = frame[c].before.username
             /\ password' = frame[c].before.password
             /\ otp_code' = frame[c].before.otp_code
             /\ authorization' = authorization
             /\ base_path' = base_path
      ]_vars

(***************************************************************************)
(* Concurrent callers (specification SpecConcurrent)                       *)
(***************************************************************************)
\* Every caller is between calls.
AllIdle == \A c \in Callers : pc[c] = "idle"

\* C29: when logins with different usernames run at the same time on one
\* client, then once all of them have completed successfully the
\* Authorization header is the token issued for the stored username.
C29_TokenBelongsToStoredUsername ==
    ( /\ AllIdle
      /\ username # ""
      /\ \A c \in Callers : out[c] = Returned(None) )
    => authorization = TokenFor(username)

\* C30: in every interleaving of base_path accesses and logins, once the
\* calls have finished a cached base_path is the one of the token that is
\* active: the result of a lookup started under an earlier token is not
\* left in the cache.
C30_CachedBasePathOfActiveToken ==
    (AllIdle /\ base_path # Absent) => base_path = BasePathOf(authorization)

====
